---- MODULE Spec2Model ----
(***************************************************************************)
(* A model of sym2num: construction of a SymbolicModel (variables,         *)
(* functions, derivatives, sparse functions), the ParametrizedModel        *)
(* wrapper, var.elements_and_shape and NumpyPrinter._print_Pow.            *)
(*                                                                         *)
(* An n-dimensional array is a record [shape, data]: `shape' a sequence of *)
(* naturals, `data' the elements in row-major (C) order, which is the      *)
(* order of numpy.ndenumerate and numpy.nonzero.  A dict is a function     *)
(* whose domain is its key set.                                            *)
(***************************************************************************)
EXTENDS Integers, Sequences, FiniteSets, TLC

VARIABLES
    decl,           \* the attributes of the SymbolicModel subclass being built
    pc,             \* the phase of SymbolicModel.__init__
    idx,            \* position of the running phase's for loop
    vars,           \* self.vars
    var_specs,      \* self.var_specs
    functions,      \* self.functions
    sparse_inds,    \* self.sparse_inds
    err,            \* the exception that ended __init__, "" if none
    last,           \* the loop iteration that ran last, with what it read
    instances,      \* the ParametrizedModel objects: object id -> self._params
    lastOp,         \* the ParametrizedModel method that ran last, its inputs, its result
    shIn, shOut,    \* argument and result of elements_and_shape
    prIn, prOut     \* argument and result of NumpyPrinter._print_Pow

vars_build == <<decl, pc, idx, vars, var_specs, functions, sparse_inds, err, last>>
vars_param == <<instances, lastOp>>
vars_shape == <<shIn, shOut>>
vars_print == <<prIn, prOut>>
allvars == <<vars_build, vars_param, vars_shape, vars_print>>

(***************************************************************************)
(* Bounds of the model.                                                    *)
(***************************************************************************)
\* longest list of derivative declarations
MaxDerivs == 2
\* longest list of sparse declarations
MaxSparse == 2

(***************************************************************************)
(* Sequences, dicts and arrays.                                            *)
(***************************************************************************)
RECURSIVE Prod(_)
\* numpy.prod of a shape
Prod(shape) == IF shape = <<>> THEN 1 ELSE Head(shape) * Prod(Tail(shape))

RECURSIVE Reverse(_)
Reverse(s) == IF s = <<>> THEN <<>> ELSE Reverse(Tail(s)) \o <<Head(s)>>

RECURSIVE FilterIdx(_, _, _)
\* the positions k >= from of s, in order, with keep[k]: boolean-mask indexing
FilterIdx(s, keep, from) ==
    IF from > Len(s) THEN <<>>
    ELSE (IF keep[from] THEN <<s[from]>> ELSE <<>>) \o FilterIdx(s, keep, from + 1)

EmptyDict == <<>>

\* d[k] = v on a dict
DictSet(d, k, v) == [n \in DOMAIN d \cup {k} |-> IF n = k THEN v ELSE d[n]]

\* dict.update: the entries of upd win
DictUpdate(d, upd) ==
    [n \in DOMAIN d \cup DOMAIN upd |-> IF n \in DOMAIN upd THEN upd[n] ELSE d[n]]

Array(shape, data) == [shape |-> shape, data |-> data]

RECURSIVE Unravel(_, _)
\* the multi-index (0-based) of the element at 0-based row-major offset k
Unravel(k, shape) ==
    IF shape = <<>> THEN <<>>
    ELSE LET inner == Prod(Tail(shape))
         IN  <<k \div inner>> \o Unravel(k % inner, Tail(shape))

RECURSIVE Ravel(_, _)
\* the 0-based row-major offset of a multi-index
Ravel(ind, shape) ==
    IF shape = <<>> THEN 0
    ELSE Head(ind) * Prod(Tail(shape)) + Ravel(Tail(ind), Tail(shape))

\* array[ind] for a full multi-index
At(a, ind) == a.data[Ravel(ind, a.shape) + 1]

(***************************************************************************)
(* Symbolic expressions.  The algebra engine is external; an expression is *)
(* a monomial coef * PROD s^pow[s] over the element symbols, which is      *)
(* closed under partial differentiation.  A sympy.Symbol is identified by  *)
(* its name (all symbols of a model carry the same assumptions).           *)
(***************************************************************************)
Syms == {"u", "v", "p", "t"}

ZeroExpr == [coef |-> 0, pow |-> [s \in Syms |-> 0]]

\* d(e)/d(s)
DiffExpr(e, s) ==
    IF e.pow[s] = 0 THEN ZeroExpr
    ELSE [coef |-> e.coef * e.pow[s], pow |-> [e.pow EXCEPT ![s] = @ - 1]]

\* truth value of an expression: only the number zero is false
IsNonzero(e) == e.coef # 0

(***************************************************************************)
(* The attributes of the model subclass: the callables named by            *)
(* function_names.  A body is the array the callable returns, each entry a *)
(* product of powers of elements of its arguments.                         *)
(***************************************************************************)
Factor(arg, i, p) == [arg |-> arg, i |-> i, p |-> p]

\* def f(self, x, t): return [x[1], t**2 * x[0]]
\* def g(self, x, y): return [x[0] * y[0], x[1]**2]
\* h = 3 (an attribute that is not callable)
Attribute(fname) ==
    CASE fname = "f" ->
            [callable |-> TRUE, method |-> TRUE, argspec |-> <<"self", "x", "t">>,
             body |-> <<  <<Factor("x", 2, 1)>>,
                          <<Factor("t", 1, 2), Factor("x", 1, 1)>>  >>]
      [] fname = "g" ->
            [callable |-> TRUE, method |-> TRUE, argspec |-> <<"self", "x", "y">>,
             body |-> <<  <<Factor("x", 1, 1), Factor("y", 1, 1)>>,
                          <<Factor("x", 2, 2)>>  >>]
      [] OTHER ->
            [callable |-> FALSE, method |-> FALSE, argspec |-> <<>>, body |-> <<>>]

RECURSIVE PowOf(_, _, _)
\* the exponent of symbol s in a product of factors, the arguments bound to argvals
PowOf(factors, argvals, s) ==
    IF factors = <<>> THEN 0
    ELSE LET fa == Head(factors)
         IN  (IF argvals[fa.arg].data[fa.i] = s THEN fa.p ELSE 0)
             + PowOf(Tail(factors), argvals, s)

\* the callable invoked with the variables' symbol arrays
Invoke(body, argvals) ==
    Array(<<Len(body)>>,
          [k \in 1..Len(body) |->
              [coef |-> 1, pow |-> [s \in Syms |-> PowOf(body[k], argvals, s)]]])

(***************************************************************************)
(* function.SymbolicFunction: an output array, the (name, variable)        *)
(* arguments, and a name.                                                  *)
(***************************************************************************)
\* the variable bound to the argument called n
ArgVar(args, n) == args[CHOOSE k \in 1..Len(args) : args[k].name = n].var

\* SymbolicFunction(f, args) for a callable f: the output is f called with the
\* variables of args
SymbolicFunctionOfCallable(fname, args) ==
    [name |-> fname,
     args |-> args,
     out  |-> Invoke(Attribute(fname).body,
                     [n \in {args[k].name : k \in 1..Len(args)} |-> ArgVar(args, n)])]

\* SymbolicFunction(out, args, name) for an output array
SymbolicFunctionOfOut(out, args, name) == [name |-> name, args |-> args, out |-> out]

\* SymbolicFunction.diff(wrt, name): every element of the output differentiated
\* by every element of wrt; the result has shape out.shape + wrt.shape
diff(f, wrt, name) ==
    LET n == Prod(wrt.shape)
        m == Prod(f.out.shape)
    IN  SymbolicFunctionOfOut(
            Array(f.out.shape \o wrt.shape,
                  [k \in 1..(m * n) |->
                      DiffExpr(f.out.data[((k - 1) \div n) + 1],
                               wrt.data[((k - 1) % n) + 1])]),
            f.args, name)

(***************************************************************************)
(* The model declarations construction is run on.                          *)
(***************************************************************************)
Str(s) == [isstr |-> TRUE, s |-> s, seq |-> <<>>]
Names(seq) == [isstr |-> FALSE, s |-> "", seq |-> seq]

\* getattr(self, var_name): x = ['u', 'v'], t = 't', y one of the two below
XSpec == Array(<<2>>, <<"u", "v">>)
TSpec == Array(<<>>, <<"t">>)
YSpecs == {Array(<<1>>, <<"p">>), Array(<<1>>, <<"u">>)}

VariableDecls ==
    {[var_names |-> <<"x", "y", "t">>,
      attr |-> [n \in {"x", "y", "t"} |->
                   IF n = "x" THEN XSpec ELSE IF n = "t" THEN TSpec ELSE y]] : y \in YSpecs}
    \cup {[var_names |-> <<"x", "t">>,
           attr |-> [n \in {"x", "t"} |-> IF n = "x" THEN XSpec ELSE TSpec]]}

FunctionNameDecls == {<<"f", "g">>, <<"f", "h">>}

DerivativeSpecs ==
    {[name |-> "df_dx",    fname |-> "f",     wrt_names |-> Str("x")],
     [name |-> "g_xy",     fname |-> "g",     wrt_names |-> Names(<<"x", "y">>)],
     [name |-> "df_dx_dt", fname |-> "df_dx", wrt_names |-> Names(<<"t">>)],
     [name |-> "f",        fname |-> "f",     wrt_names |-> Names(<<"x", "t">>)]}

\* a sparse declaration is a function name or a (function name, selector) pair
SparseSpecs ==
    {[isstr |-> TRUE,  fname |-> "f",     selector |-> ""],
     [isstr |-> TRUE,  fname |-> "df_dx", selector |-> ""],
     [isstr |-> FALSE, fname |-> "df_dx", selector |-> "lower"]}

SeqsUpTo(S, n) == UNION {[1..k -> S] : k \in 0..n}

Declarations ==
    {[var_names |-> v.var_names, attr |-> v.attr, function_names |-> fn,
      derivatives |-> d, sparse |-> sp] :
        v \in VariableDecls, fn \in FunctionNameDecls,
        d \in SeqsUpTo(DerivativeSpecs, MaxDerivs),
        sp \in SeqsUpTo(SparseSpecs, MaxSparse)}

\* a selector called on one multi-index (selectors act elementwise on the
\* index arrays): "lower" is  lambda *inds: inds[0] >= inds[-1]
Selects(selector, ind) ==
    CASE selector = "lower" -> ind[1] >= ind[Len(ind)]
      [] OTHER -> TRUE

(***************************************************************************)
(* SymbolicModel.__init__: four phases, each a for loop over a declared    *)
(* list; an action is one iteration.                                       *)
(***************************************************************************)
Phases == <<"variables", "functions", "derivatives", "sparse", "done">>

\* the list the loop of phase p runs over
PhaseList(p) ==
    CASE p = "variables"   -> decl.var_names
      [] p = "functions"   -> decl.function_names
      [] p = "derivatives" -> decl.derivatives
      [] p = "sparse"      -> decl.sparse
      [] OTHER             -> <<>>

NextPhase(p) == Phases[(CHOOSE k \in 1..Len(Phases) : Phases[k] = p) + 1]

NoStep == [kind |-> "none"]

\* construction touches nothing but the model being built
BuildFrame == UNCHANGED <<vars_param, vars_shape, vars_print>>

\* the components that do not take part in a specification
IdleParam == instances = "idle" /\ lastOp = "idle"
IdleShape == shIn = "idle" /\ shOut = "idle"
IdlePrint == prIn = "idle" /\ prOut = "idle"
IdleBuild ==
    /\ decl = "idle" /\ pc = "idle" /\ idx = 0 /\ vars = "idle" /\ var_specs = "idle"
    /\ functions = "idle" /\ sparse_inds = "idle" /\ err = "" /\ last = "idle"

\* the state when SymbolicModel.__init__ starts on a declared model
InitBuild ==
    /\ IdleParam /\ IdleShape /\ IdlePrint
    /\ decl \in Declarations
    /\ pc = "variables"
    /\ idx = 1
    /\ vars = EmptyDict
    /\ var_specs = EmptyDict
    /\ functions = EmptyDict
    /\ sparse_inds = EmptyDict
    /\ err = ""
    /\ last = NoStep

\* an exception leaves __init__: no instance is produced
Raise(e) ==
    /\ pc' = "error"
    /\ err' = e
    /\ UNCHANGED <<decl, idx, vars, var_specs, functions, sparse_inds, last>>

\* the variable built by one iteration of _init_variables: an array of the
\* shape of specs holding sympy.Symbol(element_name) at every index
SymbolsOf(specs) == Array(specs.shape, [k \in 1..Prod(specs.shape) |-> specs.data[k]])

_init_variables ==
    /\ BuildFrame
    /\ pc = "variables"
    /\ idx <= Len(decl.var_names)
    /\ LET var_name == decl.var_names[idx]
           specs == decl.attr[var_name]
       IN  /\ vars' = DictSet(vars, var_name, SymbolsOf(specs))
           /\ var_specs' = DictSet(var_specs, var_name, specs)
    /\ idx' = idx + 1
    /\ last' = [kind |-> "variable", name |-> decl.var_names[idx]]
    /\ UNCHANGED <<decl, pc, functions, sparse_inds, err>>

\* a loop ran out of items: __init__ calls the next phase
PhaseEnd ==
    /\ BuildFrame
    /\ pc \in {"variables", "functions", "derivatives", "sparse"}
    /\ idx > Len(PhaseList(pc))
    /\ pc' = NextPhase(pc)
    /\ idx' = 1
    /\ UNCHANGED <<decl, vars, var_specs, functions, sparse_inds, err, last>>

\* inspect.getfullargspec(f).args, without self for a bound method
ArgNames(f) == IF f.method THEN Tail(f.argspec) ELSE f.argspec

_init_functions ==
    /\ BuildFrame
    /\ pc = "functions"
    /\ idx <= Len(decl.function_names)
    /\ LET fname == decl.function_names[idx]
           f == Attribute(fname)
           argnames == ArgNames(f)
       IN  IF ~f.callable THEN Raise("TypeError")
           ELSE IF \E k \in 1..Len(argnames) : argnames[k] \notin DOMAIN vars
           THEN Raise("KeyError")
           ELSE /\ functions' =
                     DictSet(functions, fname,
                         SymbolicFunctionOfCallable(fname,
                             [k \in 1..Len(argnames) |->
                                 [name |-> argnames[k], var |-> vars[argnames[k]]]]))
                /\ idx' = idx + 1
                /\ last' = [kind |-> "function", name |-> fname]
                /\ UNCHANGED <<decl, pc, vars, var_specs, sparse_inds, err>>

\* wrt_names of add_derivative after the isinstance(wrt_names, str) test
WrtTuple(wrt_names) == IF wrt_names.isstr THEN <<wrt_names.s>> ELSE wrt_names.seq

RECURSIVE DiffLoop(_, _, _, _)
\* for wrt_name in order: f = f.diff(self.vars[wrt_name], name)
DiffLoop(f, order, vs, name) ==
    IF order = <<>> THEN f
    ELSE DiffLoop(diff(f, vs[Head(order)], name), Tail(order), vs, name)

\* the loop of add_derivative without reversed()
add_derivative_unreversed(fns, vs, name, fname, wrt_names) ==
    DictSet(fns, name, DiffLoop(fns[fname], WrtTuple(wrt_names), vs, name))

\* self.functions after add_derivative(name, fname, wrt_names)
add_derivative(fns, vs, name, fname, wrt_names) ==
    DictSet(fns, name, DiffLoop(fns[fname], Reverse(WrtTuple(wrt_names)), vs, name))

_init_derivatives ==
    /\ BuildFrame
    /\ pc = "derivatives"
    /\ idx <= Len(decl.derivatives)
    /\ LET spec == decl.derivatives[idx]
           wrt == WrtTuple(spec.wrt_names)
       IN  IF \/ spec.fname \notin DOMAIN functions
              \/ \E k \in 1..Len(wrt) : wrt[k] \notin DOMAIN vars
           THEN Raise("KeyError")
           ELSE /\ functions' =
                     add_derivative(functions, vars, spec.name, spec.fname, spec.wrt_names)
                /\ idx' = idx + 1
                /\ last' = [kind |-> "derivative", spec |-> spec,
                            base |-> functions[spec.fname], before |-> functions]
                /\ UNCHANGED <<decl, pc, vars, var_specs, sparse_inds, err>>

\* numpy.nonzero taking every index
NonzeroAll(out) ==
    LET m == Prod(out.shape)
    IN  [k \in 1..m |-> Unravel(k - 1, out.shape)]

\* numpy.nonzero(out): the multi-indices of the nonzero elements, row-major
Nonzero(out) ==
    LET m == Prod(out.shape)
    IN  FilterIdx([k \in 1..m |-> Unravel(k - 1, out.shape)],
                  [k \in 1..m |-> IsNonzero(out.data[k])], 1)

\* inds of _init_sparse after the selector's mask is applied: the kept
\* multi-indices, in order
SelectedInds(out, isstr, selector) ==
    LET nz == Nonzero(out)
        mask == [k \in 1..Len(nz) |-> IF isstr THEN TRUE ELSE Selects(selector, nz[k])]
    IN  FilterIdx(nz, mask, 1)

\* the tuple of per-dimension index lists kept in sparse_inds
IndexTable(out, sel) ==
    [d \in 1..Len(out.shape) |-> [k \in 1..Len(sel) |-> sel[k][d]]]

\* f.out[inds]: the rank-1 array of the elements at the index lists
TakeInds(out, table) ==
    LET n == IF Len(table) = 0 THEN 0 ELSE Len(table[1])
    IN  Array(<<n>>,
              [k \in 1..n |-> At(out, [d \in 1..Len(table) |-> table[d][k]])])

_init_sparse ==
    /\ BuildFrame
    /\ pc = "sparse"
    /\ idx <= Len(decl.sparse)
    /\ LET spec == decl.sparse[idx]
           fname == spec.fname
       IN  IF fname \notin DOMAIN functions THEN Raise("KeyError")
           ELSE LET f == functions[fname]
                    table == IndexTable(f.out, SelectedInds(f.out, spec.isstr, spec.selector))
                    fval == TakeInds(f.out, table)
                    fobj == SymbolicFunctionOfOut(fval, f.args, fname \o "_val")
                IN  /\ functions' = DictSet(functions, fobj.name, fobj)
                    /\ sparse_inds' = DictSet(sparse_inds, fname, table)
                    /\ idx' = idx + 1
                    /\ last' = [kind |-> "sparse", spec |-> spec, base |-> f,
                                before |-> functions]
                    /\ UNCHANGED <<decl, pc, vars, var_specs, err>>

(***************************************************************************)
(* pack, on a constructed model and on the class generated from it (whose  *)
(* var_specs attribute is the model's var_specs).                          *)
(***************************************************************************)
Keyed(keys, v) == [n \in keys |-> v]

\* the mappings and keyword arguments pack is called with
PackDicts == {EmptyDict, Keyed({"u"}, 5), Keyed({"u", "v"}, 5), Keyed({"p", "zz"}, 6)}
PackKwargs == {EmptyDict, Keyed({"u"}, 7)}
\* the fill values: the default 0, another scalar, a batch of two
PackFills == {Array(<<>>, <<0>>), Array(<<>>, <<9>>), Array(<<2>>, <<8, 9>>)}

\* SymbolicModel.pack(name, d, **kwargs)
pack(vs, name, d, kwargs) ==
    LET dd == DictUpdate(d, kwargs)
        var == vs[name]
    IN  Array(var.shape,
              [k \in 1..Prod(var.shape) |->
                  IF var.data[k] \in DOMAIN dd THEN dd[var.data[k]] ELSE 0])

\* ParametrizedModel.pack filling with 0 whatever fill is
cls_pack_zero(specs, name, d, fill) ==
    LET spec == specs[name]
        n == Prod(spec.shape)
    IN  Array(fill.shape \o spec.shape,
              [k \in 1..(Prod(fill.shape) * n) |->
                  LET elem_name == spec.data[((k - 1) % n) + 1]
                  IN  IF elem_name \in DOMAIN d THEN d[elem_name] ELSE 0])

\* ParametrizedModel.pack(name, d, fill): the result has shape
\* fill.shape + spec.shape and holds fill, broadcast over the variable's
\* axes, except where d has the element's name
cls_pack(specs, name, d, fill) ==
    LET spec == specs[name]
        n == Prod(spec.shape)
    IN  Array(fill.shape \o spec.shape,
              [k \in 1..(Prod(fill.shape) * n) |->
                  LET elem_name == spec.data[((k - 1) % n) + 1]
                  IN  IF elem_name \in DOMAIN d THEN d[elem_name]
                      ELSE fill.data[((k - 1) \div n) + 1]])

\* pack reads the model and changes nothing, so one call on each constructed
\* model shows every result
Pack ==
    /\ BuildFrame
    /\ pc = "done"
    /\ last.kind \notin {"pack", "cls_pack"}
    /\ \E name \in DOMAIN vars, d \in PackDicts, kwargs \in PackKwargs :
          last' = [kind |-> "pack", name |-> name, d |-> d, kwargs |-> kwargs,
                   ret |-> pack(vars, name, d, kwargs)]
    /\ UNCHANGED <<decl, pc, idx, vars, var_specs, functions, sparse_inds, err>>

ClsPack ==
    /\ BuildFrame
    /\ pc = "done"
    /\ last.kind \notin {"pack", "cls_pack"}
    /\ \E name \in DOMAIN var_specs, d \in PackDicts, fill \in PackFills :
          last' = [kind |-> "cls_pack", name |-> name, d |-> d, fill |-> fill,
                   ret |-> cls_pack(var_specs, name, d, fill)]
    /\ UNCHANGED <<decl, pc, idx, vars, var_specs, functions, sparse_inds, err>>

NextBuild ==
    \/ _init_variables
    \/ _init_functions
    \/ _init_derivatives
    \/ _init_sparse
    \/ PhaseEnd
    \/ Pack
    \/ ClsPack

SpecBuild == InitBuild /\ [][NextBuild]_allvars

(***************************************************************************)
(* Properties of model construction.                                       *)
(***************************************************************************)
RECURSIVE LeftFirst(_, _, _, _)
\* base differentiated by names[1], then names[2], ..., last by names[n]
LeftFirst(base, names, n, name) ==
    IF n = 0 THEN base
    ELSE diff(LeftFirst(base, names, n - 1, name), vars[names[n]], name)

RECURSIVE RightFirst(_, _, _, _)
\* base differentiated by names[Len(names)] first, ..., last by names[k]
RightFirst(base, names, k, name) ==
    IF k > Len(names) THEN base
    ELSE diff(RightFirst(base, names, k + 1, name), vars[names[k]], name)

\* C1 as stated: after a derivative declaration (new_name, base, [v1..vn]) is
\* processed, the function registered under new_name is the base function
\* differentiated once per variable in the order given, v1 first and vn last.
C1_AppliedLeftFirst ==
    last.kind = "derivative" =>
        LET wrt == WrtTuple(last.spec.wrt_names)
        IN  functions[last.spec.name] = LeftFirst(last.base, wrt, Len(wrt), last.spec.name)

\* C1 amended: after a derivative declaration (new_name, base, [v1..vn]) is
\* processed, the function registered under new_name is the base function
\* differentiated once per variable in the reverse of the order given, vn
\* first and v1 last.
C1_AppliedRightFirst ==
    last.kind = "derivative" =>
        LET wrt == WrtTuple(last.spec.wrt_names)
        IN  /\ Len(wrt) >= 1
            /\ last.spec.name \in DOMAIN functions
            /\ functions[last.spec.name] = RightFirst(last.base, wrt, 1, last.spec.name)

\* a declaration of two variables was processed and the two orders give
\* different functions
C1_Witness ==
    /\ last.kind = "derivative"
    /\ LET wrt == WrtTuple(last.spec.wrt_names)
       IN  /\ Len(wrt) = 2
           /\ LeftFirst(last.base, wrt, 2, last.spec.name)
                # RightFirst(last.base, wrt, 1, last.spec.name)

\* two declared variables share an element-symbol name
SharedElementName ==
    \E a, b \in 1..Len(decl.var_names) :
        /\ a # b
        /\ \E i \in 1..Len(decl.attr[decl.var_names[a]].data),
              j \in 1..Len(decl.attr[decl.var_names[b]].data) :
              decl.attr[decl.var_names[a]].data[i] = decl.attr[decl.var_names[b]].data[j]

\* C2: when two declared variables share an element-symbol name, construction
\* never gets past the variable phase: it ends there with a name-conflict
\* error, no function is bound and no instance is produced.
C2_DuplicateNamesRaise ==
    SharedElementName =>
        /\ pc \in {"variables", "error"}
        /\ pc = "error" => err = "NameConflict"
        /\ functions = EmptyDict

\* the k-th multi-index of an index table
TableInd(table, k) == [d \in 1..Len(table) |-> table[d][k]]

\* the multi-indices of an array of the given shape
IndicesOf(shape) == {Unravel(k - 1, shape) : k \in 1..Prod(shape)}

\* C7: after a sparsity declaration with base function f is processed, the
\* registry holds a function named <f>_val with the arguments of f, and the
\* index table under key f lists, one list per axis, multi-indices that are
\* all nonzero in the output of f and satisfy the selector (every nonzero
\* index when no selector is given); the new output is rank 1 and its k-th
\* element is the output of f at the k-th recorded multi-index.
C7_SparseExtraction ==
    last.kind = "sparse" =>
        LET f == last.base
            fname == last.spec.fname
            table == sparse_inds[fname]
            val == functions[fname \o "_val"]
            n == val.out.shape[1]
        IN  /\ val.name = fname \o "_val"
            /\ val.args = f.args
            /\ Len(table) = Len(f.out.shape)
            /\ Len(val.out.shape) = 1
            /\ \A d \in 1..Len(table) : Len(table[d]) = n
            /\ \A k \in 1..n :
                  /\ TableInd(table, k) \in IndicesOf(f.out.shape)
                  /\ IsNonzero(At(f.out, TableInd(table, k)))
                  /\ ~last.spec.isstr => Selects(last.spec.selector, TableInd(table, k))
                  /\ val.out.data[k] = At(f.out, TableInd(table, k))
            /\ \A ind \in IndicesOf(f.out.shape) :
                  (/\ IsNonzero(At(f.out, ind))
                   /\ last.spec.isstr \/ Selects(last.spec.selector, ind))
                  => \E k \in 1..n : TableInd(table, k) = ind
            /\ \A j, k \in 1..n : j < k =>
                  Ravel(TableInd(table, j), f.out.shape) < Ravel(TableInd(table, k), f.out.shape)

\* a declaration with a selector was processed on an output that has a zero
\* entry and a nonzero entry the selector rejects, and something was kept
C7_Witness ==
    /\ last.kind = "sparse"
    /\ ~last.spec.isstr
    /\ sparse_inds[last.spec.fname][1] # <<>>
    /\ \E ind \in IndicesOf(last.base.out.shape) : ~IsNonzero(At(last.base.out, ind))
    /\ \E ind \in IndicesOf(last.base.out.shape) :
          IsNonzero(At(last.base.out, ind)) /\ ~Selects(last.spec.selector, ind)

\* the name a derivative or sparse step registers its result under
StepName ==
    IF last.kind = "derivative" THEN last.spec.name ELSE last.spec.fname \o "_val"

\* C10: a derivative or sparse step leaves every function already in the
\* registry as it was and adds its result under a name that was not in the
\* registry before.
C10_NeverReplaced ==
    last.kind \in {"derivative", "sparse"} =>
        /\ StepName \notin DOMAIN last.before
        /\ \A n \in DOMAIN last.before : n \in DOMAIN functions /\ functions[n] = last.before[n]

\* the entry a packed element must hold: the mapping's value for the name,
\* the default where the mapping has none
Expected(mapping, elem_name, default) ==
    IF elem_name \in DOMAIN mapping THEN mapping[elem_name] ELSE default

\* C6 as stated: pack returns an array of exactly the shape of the declared
\* variable, each entry the mapping's value for the element's name, or the
\* supplied default (0 unless overridden) where the mapping has none.
C6_PackVariableShape ==
    /\ last.kind = "pack" =>
          LET var == vars[last.name]
          IN  /\ last.ret.shape = var.shape
              /\ \A k \in 1..Prod(var.shape) :
                    last.ret.data[k] =
                        Expected(DictUpdate(last.d, last.kwargs), var.data[k], 0)
    /\ last.kind = "cls_pack" =>
          LET spec == var_specs[last.name]
          IN  /\ last.ret.shape = spec.shape
              /\ \A k \in 1..Prod(spec.shape) :
                    last.ret.data[k] = Expected(last.d, spec.data[k], last.fill.data[1])

\* C6 amended: SymbolicModel.pack returns an array of exactly the variable's
\* shape with default 0; ParametrizedModel.pack returns an array whose shape
\* is the shape of the default followed by the variable's shape (exactly the
\* variable's shape for a scalar default such as 0).  In both, the entry of an
\* element is the mapping's value for its name, or the default (the default's
\* entry for the same leading index) where the mapping has none.
C6_PackDefaultShape ==
    /\ last.kind = "pack" =>
          LET var == vars[last.name]
          IN  /\ last.ret.shape = var.shape
              /\ Len(last.ret.data) = Prod(var.shape)
              /\ \A k \in 1..Prod(var.shape) :
                    last.ret.data[k] =
                        Expected(DictUpdate(last.d, last.kwargs), var.data[k], 0)
    /\ last.kind = "cls_pack" =>
          LET spec == var_specs[last.name]
              n == Prod(spec.shape)
          IN  /\ last.ret.shape = last.fill.shape \o spec.shape
              /\ Len(last.ret.data) = Prod(last.fill.shape) * n
              /\ \A b \in 1..Prod(last.fill.shape), k \in 1..n :
                    last.ret.data[(b - 1) * n + k] =
                        Expected(last.d, spec.data[k], last.fill.data[b])

\* pack ran with a batch of nonzero defaults on a variable with an element the
\* mapping names and an element it does not
C6_Witness ==
    /\ last.kind = "cls_pack"
    /\ last.fill.shape # <<>>
    /\ last.fill.data[1] # 0
    /\ \E k \in 1..Len(var_specs[last.name].data) :
          var_specs[last.name].data[k] \in DOMAIN last.d
    /\ \E k \in 1..Len(var_specs[last.name].data) :
          var_specs[last.name].data[k] \notin DOMAIN last.d

(***************************************************************************)
(* ParametrizedModel.  A value is None, a plain Python value or a numpy     *)
(* array; `val' is its flat data.  An object is its position in            *)
(* `instances', which holds each object's _params dict.                    *)
(***************************************************************************)
\* most ParametrizedModel objects alive at once
MaxInstances == 2

None == [kind |-> "none", val |-> <<>>]
Plain(v) == [kind |-> "plain", val |-> <<v>>]
NdArray(data) == [kind |-> "array", val |-> data]

\* numpy.asarray
asarray(v) == IF v.kind = "array" THEN v ELSE NdArray(v.val)

\* the generated class: var_specs (a scalar, a vector, a variable without
\* elements) and the signatures of its functions
ClassVarSpecs ==
    [n \in {"a", "b", "e"} |->
        IF n = "a" THEN Array(<<>>, <<"a">>)
        ELSE IF n = "b" THEN Array(<<2>>, <<"b0", "b1">>)
        ELSE Array(<<0>>, <<>>)]

signatures == [n \in {"f"} |-> <<"a", "b">>]

DictsOver(keys, values) == UNION {[ks -> values] : ks \in SUBSET keys}

\* the _params of ParametrizedModel(params)
__init__(specs, params) ==
    LET given == [k \in DOMAIN params |-> asarray(params[k])]
        empty == {n \in DOMAIN specs : Prod(specs[n].shape) = 0 /\ n \notin DOMAIN params}
    IN  [k \in DOMAIN given \cup empty |->
            IF k \in DOMAIN given THEN given[k] ELSE NdArray(<<>>)]

\* parametrize updating self._params itself instead of a copy
parametrize_nocopy(insts, specs, self, params, kwparams) ==
    LET new_params == DictUpdate(DictUpdate(insts[self], params), kwparams)
    IN  Append([insts EXCEPT ![self] = new_params], __init__(specs, new_params))

\* the objects after self.parametrize(params, **kwparams): the new object is
\* the last one
parametrize(insts, specs, self, params, kwparams) ==
    LET new_params == DictUpdate(DictUpdate(insts[self], params), kwparams)
    IN  Append(insts, __init__(specs, new_params))

\* filterout_none keeping every item
filterout_none_keepall(d) == d

\* filterout_none(d)
filterout_none(d) ==
    LET keep == {k \in DOMAIN d : d[k] # None}
    IN  [k \in keep |-> d[k]]

\* the items of zip(fargs, args), as a mapping
Zip(fargs, args) ==
    LET n == IF Len(fargs) < Len(args) THEN Len(fargs) ELSE Len(args)
    IN  [k \in {fargs[j] : j \in 1..n} |->
            args[CHOOSE j \in 1..n : fargs[j] = k]]

\* self.call_args(f, *args, **kwargs)
call_args(params, f, args, kwargs) ==
    LET fargs == signatures[f]
        stored == [k \in {k \in DOMAIN params : \E j \in 1..Len(fargs) : fargs[j] = k}
                      |-> params[k]]
    IN  DictUpdate(DictUpdate(stored, filterout_none(kwargs)),
                   filterout_none(Zip(fargs, args)))

\* the inputs of the operations
InitParams == DictsOver({"a", "e"}, {Plain(1)}) \cup {Keyed({"a", "b"}, NdArray(<<2>>))}
Overrides == DictsOver({"a", "b"}, {Plain(3)})
KwOverrides == DictsOver({"a"}, {Plain(4)})
CallArgs == SeqsUpTo({None, Plain(5)}, 2)
CallKwargs == DictsOver({"a", "b"}, {None, Plain(6)})

InitParam ==
    /\ IdleShape /\ IdlePrint
    /\ decl = "idle" /\ pc = "idle" /\ idx = 0 /\ vars = "idle"
    /\ functions = "idle" /\ sparse_inds = "idle" /\ err = "" /\ last = "idle"
    /\ var_specs = ClassVarSpecs
    /\ \E params \in InitParams : instances = <<__init__(var_specs, params)>>
    /\ lastOp = [kind |-> "none"]

ParamFrame ==
    UNCHANGED <<decl, pc, idx, vars, var_specs, functions, sparse_inds, err, last,
                vars_shape, vars_print>>

Parametrize ==
    /\ ParamFrame
    /\ Len(instances) < MaxInstances
    /\ \E self \in 1..Len(instances), params \in Overrides, kwparams \in KwOverrides :
          /\ instances' = parametrize(instances, var_specs, self, params, kwparams)
          /\ lastOp' = [kind |-> "parametrize", self |-> self, params |-> params,
                        kwparams |-> kwparams, before |-> instances]

\* call when call_args works on self._params itself instead of a new dict
CallAliased ==
    /\ ParamFrame
    /\ \E self \in 1..Len(instances), f \in DOMAIN signatures,
          args \in CallArgs, kwargs \in CallKwargs :
          LET passed == call_args(instances[self], f, args, kwargs)
          IN  /\ lastOp' = [kind |-> "call", self |-> self, f |-> f, args |-> args,
                            kwargs |-> kwargs, passed |-> passed]
              /\ instances' = [instances EXCEPT ![self] = DictUpdate(@, passed)]

\* self.call(f, *args, **kwargs): f is called with the keyword arguments `passed'
Call ==
    /\ ParamFrame
    /\ \E self \in 1..Len(instances), f \in DOMAIN signatures,
          args \in CallArgs, kwargs \in CallKwargs :
          lastOp' = [kind |-> "call", self |-> self, f |-> f, args |-> args,
                     kwargs |-> kwargs,
                     passed |-> call_args(instances[self], f, args, kwargs)]
    /\ UNCHANGED instances

NextParam ==
    \/ Parametrize
    \/ Call

SpecParam == InitParam /\ [][NextParam]_allvars

(***************************************************************************)
(* Properties of ParametrizedModel.                                        *)
(***************************************************************************)
\* the value given positionally for the k-th declared argument, None if none
Positional(args, k) == IF k <= Len(args) THEN args[k] ELSE None

\* the value given by name, None if none
Named(kwargs, n) == IF n \in DOMAIN kwargs THEN kwargs[n] ELSE None

\* C3: call passes, for each declared argument of the target function, the
\* call-time value that is not None (the positional one, else the named one);
\* failing that the stored parameter of that name; failing that nothing.  No
\* None is ever passed.
C3_CallPrecedence ==
    lastOp.kind = "call" =>
        LET fargs == signatures[lastOp.f]
            stored == instances[lastOp.self]
            passed == lastOp.passed
        IN  /\ \A k \in 1..Len(fargs) :
                  LET n == fargs[k]
                      pos == Positional(lastOp.args, k)
                      kw == Named(lastOp.kwargs, n)
                  IN  IF pos # None THEN n \in DOMAIN passed /\ passed[n] = pos
                      ELSE IF kw # None THEN n \in DOMAIN passed /\ passed[n] = kw
                      ELSE IF n \in DOMAIN stored
                           THEN n \in DOMAIN passed /\ passed[n] = stored[n]
                      ELSE n \notin DOMAIN passed
            /\ \A n \in DOMAIN passed : passed[n] # None

\* a call gave None for an argument that is stored, a value for one that is
\* stored, and nothing for one that is not stored
C3_Witness ==
    /\ lastOp.kind = "call"
    /\ Len(lastOp.args) >= 1
    /\ lastOp.args[1] = None
    /\ "a" \in DOMAIN instances[lastOp.self]
    /\ "a" \notin DOMAIN lastOp.kwargs
    /\ "b" \in DOMAIN lastOp.kwargs
    /\ lastOp.kwargs["b"] = None
    /\ "b" \notin DOMAIN instances[lastOp.self]

\* the overrides of a parametrize call: the keyword arguments over params
OverridesOf(op) == DictUpdate(op.params, op.kwparams)

\* C4: parametrize returns a new object whose stored parameters are the
\* original's overlaid with the overrides (stored as arrays): an override wins
\* for every name it gives, every other stored name is carried over, no other
\* name is stored; the original's stored parameters are unchanged.
C4_ParametrizeOverlay ==
    lastOp.kind = "parametrize" =>
        LET old == lastOp.before[lastOp.self]
            over == OverridesOf(lastOp)
            new == instances[Len(instances)]
        IN  /\ Len(instances) = Len(lastOp.before) + 1
            /\ DOMAIN new = DOMAIN old \cup DOMAIN over
            /\ \A n \in DOMAIN over : new[n] = asarray(over[n])
            /\ \A n \in DOMAIN old \ DOMAIN over : new[n] = old[n]
            /\ instances[lastOp.self] = old

\* parametrize ran with an override for a stored name, the keyword argument
\* winning over params, and a stored name without override
C4_Witness ==
    /\ lastOp.kind = "parametrize"
    /\ "a" \in DOMAIN lastOp.before[lastOp.self]
    /\ "a" \in DOMAIN lastOp.params
    /\ "a" \in DOMAIN lastOp.kwparams
    /\ "e" \in DOMAIN lastOp.before[lastOp.self]
    /\ instances[Len(instances)]["a"] # lastOp.before[lastOp.self]["a"]

\* C5: no call and no parametrize changes the stored parameters of an object
\* that exists: they stay what construction made them.
C5_StoredParamsKept ==
    [][\A i \in 1..Len(instances) : i <= Len(instances') /\ instances'[i] = instances[i]]_allvars

\* a call has overridden a stored parameter with an explicit value
C5_Witness ==
    /\ lastOp.kind = "call"
    /\ \E n \in DOMAIN lastOp.passed :
          /\ n \in DOMAIN instances[lastOp.self]
          /\ lastOp.passed[n] # instances[lastOp.self][n]

(***************************************************************************)
(* var.elements_and_shape.  A nested specification is a tree: a leaf is a  *)
(* str (or another object that is not iterable), a node an iterable of     *)
(* specifications.                                                         *)
(***************************************************************************)
\* most items of one nested sequence
MaxWidth == 2

Leaf(name) == [leaf |-> TRUE, name |-> name, kids |-> <<>>]
Node(kids) == [leaf |-> FALSE, name |-> "", kids |-> kids]

Leaves == {Leaf("a"), Leaf("b")}
Nested1 == Leaves \cup {Node(kids) : kids \in SeqsUpTo(Leaves, MaxWidth)}
\* the specifications of nesting depth up to 2
NestedSpecs == Nested1 \cup {Node(kids) : kids \in SeqsUpTo(Nested1, MaxWidth)}

RECURSIVE Concat(_)
\* the items of a sequence of sequences, joined
Concat(seqs) == IF seqs = <<>> THEN <<>> ELSE Head(seqs) \o Concat(Tail(seqs))

ValueError == [raised |-> TRUE, elements |-> <<>>, shape |-> <<>>]

RECURSIVE elements_and_shape(_)
\* elements_and_shape(array_like): the flat elements and the shape, or the
\* exception raised
elements_and_shape(array_like) ==
    IF array_like.leaf
    THEN [raised |-> FALSE, elements |-> <<array_like.name>>, shape |-> <<>>]
    ELSE LET kids == array_like.kids
             subs == [k \in 1..Len(kids) |-> elements_and_shape(kids[k])]
         IN  IF \E k \in 1..Len(subs) : subs[k].raised THEN ValueError
             \* zip(*[]) yields nothing to unpack into (subelements, subshapes)
             ELSE IF Len(subs) = 0 THEN ValueError
             ELSE IF Cardinality({subs[k].shape : k \in 1..Len(subs)}) # 1 THEN ValueError
             ELSE [raised |-> FALSE,
                   elements |-> Concat([k \in 1..Len(subs) |-> subs[k].elements]),
                   shape |-> <<Len(subs)>> \o subs[1].shape]

NotCalled == [called |-> FALSE]

InitShape ==
    /\ IdleBuild /\ var_specs = "idle" /\ IdleParam /\ IdlePrint
    /\ shIn \in NestedSpecs
    /\ shOut = NotCalled

ElementsAndShape ==
    /\ shOut = NotCalled
    /\ shOut' = [called |-> TRUE, ret |-> elements_and_shape(shIn)]
    /\ UNCHANGED <<shIn, vars_build, vars_param, vars_print>>

NextShape == ElementsAndShape

SpecShape == InitShape /\ [][NextShape]_allvars

RECURSIVE ShapeOf(_)
\* the shape of a nested specification, <<-1>> if its items disagree
ShapeOf(t) ==
    IF t.leaf THEN <<>>
    ELSE IF t.kids = <<>> THEN <<0>>
    ELSE LET shapes == {ShapeOf(t.kids[k]) : k \in 1..Len(t.kids)}
         IN  IF Cardinality(shapes) = 1 /\ shapes # {<<-1>>}
             THEN <<Len(t.kids)>> \o ShapeOf(t.kids[1])
             ELSE <<-1>>

\* a valid specification: the items of every sequence have one shape
ValidSpec(t) == ShapeOf(t) # <<-1>>

RECURSIVE Rebuild(_, _)
\* the nested structure of the given shape holding the elements in row-major
\* order
Rebuild(elements, shape) ==
    IF shape = <<>> THEN Leaf(elements[1])
    ELSE LET inner == Prod(Tail(shape))
         IN  Node([k \in 1..Head(shape) |->
                     Rebuild(SubSeq(elements, (k - 1) * inner + 1, k * inner),
                             Tail(shape))])

\* C8: for every valid nested specification (a bare name, consistent nested
\* sequences, sequences without elements) elements_and_shape returns elements
\* and a shape from which the specification is rebuilt in row-major order,
\* and the number of elements is the product of the shape.
C8_RoundTrip ==
    (shOut.called /\ ValidSpec(shIn)) =>
        /\ ~shOut.ret.raised
        /\ Len(shOut.ret.elements) = Prod(shOut.ret.shape)
        /\ Rebuild(shOut.ret.elements, shOut.ret.shape) = shIn

\* C8 on the specifications every sequence of which has an element
C8_RoundTripNonempty ==
    (shOut.called /\ ValidSpec(shIn) /\ Prod(ShapeOf(shIn)) > 0) =>
        /\ ~shOut.ret.raised
        /\ Len(shOut.ret.elements) = Prod(shOut.ret.shape)
        /\ Rebuild(shOut.ret.elements, shOut.ret.shape) = shIn

(***************************************************************************)
(* printing.NumpyPrinter._print_Pow.  An expression is a symbol or a power *)
(* of a symbol; an exponent is a number, kept as twice its value so that    *)
(* the halves are integers, or a symbol.  Printed text is a sequence of     *)
(* tokens.                                                                 *)
(***************************************************************************)
\* largest magnitude of twice a numeric exponent
MaxTwice == 4

Number(twice) == [kind |-> "number", twice |-> twice, name |-> ""]
SymbolExp(name) == [kind |-> "symbol", twice |-> 0, name |-> name]
Exponents == {Number(t) : t \in -MaxTwice..MaxTwice} \cup {SymbolExp("n")}

Symbol(name) == [kind |-> "symbol", name |-> name, exp |-> Number(0)]
Pow(name, exponent) == [kind |-> "pow", name |-> name, exp |-> exponent]
Bases == {Symbol("x"), Symbol("y")} \cup {Pow("x", e) : e \in Exponents}

\* exponent == value, for a value given as twice itself
ExpEquals(exponent, twice) == exponent.kind = "number" /\ exponent.twice = twice

\* the text of an exponent
PrintExp(exponent) ==
    IF exponent.kind = "symbol" THEN <<exponent.name>>
    ELSE IF exponent.twice % 2 = 0 THEN <<ToString(exponent.twice \div 2)>>
    ELSE <<ToString(exponent.twice), "/", "2">>

\* StrPrinter._print_Pow, the rendering of the base printer: base**exponent
StrPrinter_print_Pow(printed_base, exponent) ==
    printed_base \o <<"**">> \o PrintExp(exponent)

\* _print_Pow without the test for the exponent 1
PowTextNoOne(numpy, printed_base, exponent) ==
    IF ExpEquals(exponent, 1) THEN <<numpy, ".sqrt", "(">> \o printed_base \o <<")">>
    ELSE IF ExpEquals(exponent, -1)
    THEN <<"(", "1", "/", numpy, ".sqrt", "(">> \o printed_base \o <<")", ")">>
    ELSE StrPrinter_print_Pow(printed_base, exponent)

\* the text _print_Pow returns for a base already printed
PowText(numpy, printed_base, exponent) ==
    IF ExpEquals(exponent, 1) THEN <<numpy, ".sqrt", "(">> \o printed_base \o <<")">>
    ELSE IF ExpEquals(exponent, -1)
    THEN <<"(", "1", "/", numpy, ".sqrt", "(">> \o printed_base \o <<")", ")">>
    ELSE IF ExpEquals(exponent, 2) THEN <<"(">> \o printed_base \o <<")">>
    ELSE StrPrinter_print_Pow(printed_base, exponent)

\* self._print(expr): a symbol prints as its name, a power through _print_Pow
_print(numpy, expr) ==
    IF expr.kind = "symbol" THEN <<expr.name>>
    ELSE PowText(numpy, <<expr.name>>, expr.exp)

\* _print_Pow(expr) for expr = base ** exponent
_print_Pow(numpy, base, exponent) == PowText(numpy, _print(numpy, base), exponent)

InitPrint ==
    /\ IdleBuild /\ var_specs = "idle" /\ IdleParam /\ IdleShape
    /\ prIn \in [numpy : {"_numpy", "np"}, base : Bases, exponent : Exponents]
    /\ prOut = NotCalled

PrintPow ==
    /\ prOut = NotCalled
    /\ prOut' = [called |-> TRUE,
                 text |-> _print_Pow(prIn.numpy, prIn.base, prIn.exponent)]
    /\ UNCHANGED <<prIn, vars_build, vars_param, vars_shape>>

NextPrint == PrintPow

SpecPrint == InitPrint /\ [][NextPrint]_allvars

RECURSIVE Count(_, _)
\* how often a token occurs in a text
Count(text, token) ==
    IF text = <<>> THEN 0
    ELSE (IF Head(text) = token THEN 1 ELSE 0) + Count(Tail(text), token)

\* C9: a power with exponent 0.5 prints as a square-root call on the printed
\* base, with exponent -0.5 as the reciprocal of that call, with exponent 1 as
\* the printed base in parentheses with no power operator added, and with any
\* other exponent as the base printer prints a power.
C9_PowPolicy ==
    prOut.called =>
        LET b == _print(prIn.numpy, prIn.base)
            e == prIn.exponent
            text == prOut.text
        IN  /\ (e.kind = "number" /\ e.twice = 1) =>
                  text = <<prIn.numpy, ".sqrt", "(">> \o b \o <<")">>
            /\ (e.kind = "number" /\ e.twice = -1) =>
                  text = <<"(", "1", "/", prIn.numpy, ".sqrt", "(">> \o b \o <<")", ")">>
            /\ (e.kind = "number" /\ e.twice = 2) =>
                  /\ text = <<"(">> \o b \o <<")">>
                  /\ Count(text, "**") = Count(b, "**")
            /\ (e.kind = "symbol" \/ e.twice \notin {1, -1, 2}) =>
                  text = StrPrinter_print_Pow(b, e)

\* a power of a power was printed with exponent 1
C9_Witness ==
    /\ prOut.called
    /\ prIn.base.kind = "pow"
    /\ prIn.exponent = Number(2)

====
